---- MODULE Spec2Model ----
(***************************************************************************)
(* Model of the client of project-scarlet (src/static/app.js): the speech  *)
(* narration pipeline (splitBySentence, stopTTS, playTTS) and the event    *)
(* stream consumer / response assembler (sendMessage).                     *)
(*                                                                         *)
(* JavaScript runs one task at a time; a task runs its handler and then    *)
(* every promise continuation it made runnable.  Each action below is one  *)
(* task: a click, the settling of a fetch, a media event, a stream read.   *)
(* Text is a sequence of characters; a character is a one-symbol string.   *)
(***************************************************************************)
EXTENDS Integers, Sequences, FiniteSets, TLC

\* ---------------------------------------------------------------- bounds
MaxInv == 2        \* playTTS calls in one behaviour
MaxBtn == 2        \* narration buttons in the narration specification
MaxFaults == 1     \* failures the environment injects in one behaviour

\* ------------------------------------------------------- splitBySentence
\* '。' is written U3002, '！' UFF01, '？' UFF1F.
Terminators == {"U3002", "UFF01", "UFF1F", "!", "?", "\n"}
Whitespace == {" ", "\n", "\t"}

RECURSIVE TrimStart(_)
TrimStart(s) ==
  IF s # <<>> /\ Head(s) \in Whitespace THEN TrimStart(Tail(s)) ELSE s

RECURSIVE TrimEnd(_)
TrimEnd(s) ==
  IF s # <<>> /\ s[Len(s)] \in Whitespace
  THEN TrimEnd(SubSeq(s, 1, Len(s) - 1)) ELSE s

trim(s) == TrimEnd(TrimStart(s))

RECURSIVE SplitLoop(_, _, _, _)
SplitLoop(text, i, current, chunks) ==
  IF i > Len(text) THEN [current |-> current, chunks |-> chunks]
  ELSE LET cur == Append(current, text[i]) IN
       IF text[i] \in Terminators
       THEN LET trimmed == trim(cur) IN
            SplitLoop(text, i + 1, <<>>,
                      IF trimmed # <<>> THEN Append(chunks, trimmed) ELSE chunks)
       ELSE SplitLoop(text, i + 1, cur, chunks)

\* (variant: a plain period closes a chunk too)
RECURSIVE SplitLoop_period(_, _, _, _)
SplitLoop_period(text, i, current, chunks) ==
  IF i > Len(text) THEN [current |-> current, chunks |-> chunks]
  ELSE LET cur == Append(current, text[i]) IN
       IF text[i] \in Terminators \cup {"."}
       THEN LET trimmed == trim(cur) IN
            SplitLoop_period(text, i + 1, <<>>,
                             IF trimmed # <<>> THEN Append(chunks, trimmed) ELSE chunks)
       ELSE SplitLoop_period(text, i + 1, cur, chunks)

splitBySentence_period(text) ==
  LET r == SplitLoop_period(text, 1, <<>>, <<>>)
      rest == trim(r.current)
      chunks == IF rest # <<>> THEN Append(r.chunks, rest) ELSE r.chunks
  IN IF Len(chunks) > 0 THEN chunks ELSE <<text>>

\* (variant: a chunk is closed without its terminator)
RECURSIVE SplitLoop_cut(_, _, _, _)
SplitLoop_cut(text, i, current, chunks) ==
  IF i > Len(text) THEN [current |-> current, chunks |-> chunks]
  ELSE IF text[i] \in Terminators
       THEN LET trimmed == trim(current) IN
            SplitLoop_cut(text, i + 1, <<>>,
                          IF trimmed # <<>> THEN Append(chunks, trimmed) ELSE chunks)
       ELSE SplitLoop_cut(text, i + 1, Append(current, text[i]), chunks)

splitBySentence_cut(text) ==
  LET r == SplitLoop_cut(text, 1, <<>>, <<>>)
      rest == trim(r.current)
      chunks == IF rest # <<>> THEN Append(r.chunks, rest) ELSE r.chunks
  IN IF Len(chunks) > 0 THEN chunks ELSE <<text>>

\* (variant: what follows the last terminator is not returned)
splitBySentence_norest(text) ==
  LET r == SplitLoop(text, 1, <<>>, <<>>)
  IN IF Len(r.chunks) > 0 THEN r.chunks ELSE <<text>>

\* (variant: blank text gives no chunk)
splitBySentence_none(text) ==
  LET r == SplitLoop(text, 1, <<>>, <<>>)
      rest == trim(r.current)
  IN IF rest # <<>> THEN Append(r.chunks, rest) ELSE r.chunks

splitBySentence(text) ==
  LET r == SplitLoop(text, 1, <<>>, <<>>)
      rest == trim(r.current)
      chunks == IF rest # <<>> THEN Append(r.chunks, rest) ELSE r.chunks
  IN IF Len(chunks) > 0 THEN chunks ELSE <<text>>

\* ------------------------------------------------------------ variables
VARIABLES
  \* narration (app.js:143-269)
  currentAudio,   \* app.js:143  <<invocation, chunk>> of the Audio, or NoAudio
  ttsAbort,       \* app.js:144  _ttsAbort: the invocation whose controller it holds, or 0
  invs,           \* the playTTS calls made so far, each with its locals
  btns,           \* the .tts-btn elements of the document
  \* page state (app.js:6-8, 11-13) and the document
  currentMode,    \* app.js:6
  isStreaming,    \* app.js:7
  hasMessages,    \* app.js:8
  chatInput,      \* chatInput.value
  sendDisabled,   \* sendBtn.disabled
  expression,     \* what setExpression last showed
  msgs,           \* the .msg elements of #chat-messages, in document order
  toolBox,        \* #tool-status-container: whether it exists, and its rows
  confirms,       \* the .confirm-action elements added
  \* the running sendMessage call (app.js:399-532)
  sendPc,         \* "idle", "connect" (await fetch), "read" (await reader.read())
  streamBody,     \* app.js:409  index in msgs of the body element, or 0
  rawText,        \* app.js:410
  decoderPending, \* bytes the TextDecoder holds back (an unfinished character)
  buffer,         \* app.js:421
  currentEvent,   \* app.js:422
  \* the environment
  wire,           \* bytes the server has sent and the reader has not yet returned
  emitted,        \* bursts the server has sent in this turn
  faults,         \* failures injected so far (bounds the environment)
  \* history, for stating the claims
  tracking,       \* whether lineLog and sent are kept
  sent,           \* every byte the server has sent in this turn
  lineLog,        \* one entry per line processed in this turn
  turn,           \* what happened in the current turn
  start           \* the state in which the current stream was opened

vars == <<currentAudio, ttsAbort, invs, btns, currentMode, isStreaming, hasMessages,
          chatInput, sendDisabled, expression, msgs, toolBox, confirms, sendPc,
          streamBody, rawText, decoderPending, buffer, currentEvent, wire, emitted,
          faults, tracking, sent, lineLog, turn, start>>

NoAudio == <<>>

\* The state as one record, so that a handler is a composition of steps.
World ==
  [currentAudio |-> currentAudio, ttsAbort |-> ttsAbort, invs |-> invs, btns |-> btns,
   currentMode |-> currentMode, isStreaming |-> isStreaming,
   hasMessages |-> hasMessages, chatInput |-> chatInput,
   sendDisabled |-> sendDisabled, expression |-> expression, msgs |-> msgs,
   toolBox |-> toolBox, confirms |-> confirms, sendPc |-> sendPc,
   streamBody |-> streamBody, rawText |-> rawText,
   decoderPending |-> decoderPending, buffer |-> buffer,
   currentEvent |-> currentEvent, wire |-> wire, emitted |-> emitted,
   tracking |-> tracking, sent |-> sent, lineLog |-> lineLog, turn |-> turn]

Assign(w) ==
  /\ Len(w.invs) <= MaxInv
  /\ currentAudio' = w.currentAudio
  /\ ttsAbort' = w.ttsAbort
  /\ invs' = w.invs
  /\ btns' = w.btns
  /\ currentMode' = w.currentMode
  /\ isStreaming' = w.isStreaming
  /\ hasMessages' = w.hasMessages
  /\ chatInput' = w.chatInput
  /\ sendDisabled' = w.sendDisabled
  /\ expression' = w.expression
  /\ msgs' = w.msgs
  /\ toolBox' = w.toolBox
  /\ confirms' = w.confirms
  /\ sendPc' = w.sendPc
  /\ streamBody' = w.streamBody
  /\ rawText' = w.rawText
  /\ decoderPending' = w.decoderPending
  /\ buffer' = w.buffer
  /\ currentEvent' = w.currentEvent
  /\ wire' = w.wire
  /\ emitted' = w.emitted
  /\ tracking' = w.tracking
  /\ sent' = w.sent
  /\ lineLog' = w.lineLog
  /\ turn' = w.turn

\* A step of the program or of a well-behaved environment.
Becomes(w) == Assign(w) /\ faults' = faults /\ start' = start

\* The same, for a step in which the environment fails.
Fails(w) == faults < MaxFaults /\ Assign(w) /\ faults' = faults + 1 /\ start' = start

\* --------------------------------------------------------------- buttons
makeTTSButton(text) ==
  [cls |-> "idle", disabled |-> FALSE, onclick |-> "play", text |-> text]

ResetBtn(b) == [b EXCEPT !.disabled = FALSE, !.cls = "idle", !.onclick = "play"]

resetTTSBtn(w, btn) == [w EXCEPT !.btns[btn] = ResetBtn(@)]

\* ------------------------------------------------- the loop of playTTS
\* An invocation v: text, chunks, btn, the loop index i (from 0), where it is
\* suspended (pc), ac.signal.aborted, and per chunk k = i + 1 the state of
\* its fetch and of its Audio (st, and how often its URL was revoked).
NoAudioRec == [st |-> "none", revoked |-> 0]

\* (variant: a failed narration leaves its button as it is)
Catch_stuck(w, id, isAbortError) ==
  [w EXCEPT !.invs[id].pc = "done", !.invs[id].logged = (@ \/ ~isAbortError)]

\* catch (e): console.error unless e is an AbortError; reset unless aborted.
Catch(w, id, isAbortError) ==
  LET v == w.invs[id]
      w1 == [w EXCEPT !.invs[id].pc = "done",
                      !.invs[id].logged = (@ \/ ~isAbortError)]
  IN IF v.aborted THEN w1 ELSE resetTTSBtn(w1, v.btn)

\* (variant: the end of the loop does not look at the signal)
AfterLoop_unguarded(w, id) ==
  resetTTSBtn([w EXCEPT !.invs[id].pc = "done", !.currentAudio = NoAudio],
              w.invs[id].btn)

\* After the loop: if (!ac.signal.aborted) { currentAudio = null; reset }
AfterLoop(w, id) ==
  LET v == w.invs[id]
      w1 == [w EXCEPT !.invs[id].pc = "done"]
  IN IF v.aborted THEN w1
     ELSE resetTTSBtn([w1 EXCEPT !.currentAudio = NoAudio], v.btn)

\* (variant: the next chunk is not fetched ahead)
GotResponse_lazy(w, id) == [w EXCEPT !.invs[id].pc = "blob"]

\* (variant: the next two chunks are fetched ahead)
GotResponse_eager(w, id) ==
  LET v == w.invs[id]
      k == v.i + 1
  IN [w EXCEPT !.invs[id].pc = "blob",
               !.invs[id].fetch = [j \in DOMAIN v.fetch |->
                                     IF j \in {k + 1, k + 2} /\ v.fetch[j] = "none"
                                     THEN "pending" ELSE v.fetch[j]]]

\* resp.ok: prefetch chunk i + 1, then await resp.blob().
GotResponse(w, id) ==
  LET v == w.invs[id]
      k == v.i + 1
  IN IF k < Len(v.chunks)
     THEN [w EXCEPT !.invs[id].pc = "blob",
                    !.invs[id].fetch[k + 1] =
                        IF v.aborted THEN "aborted" ELSE "pending"]
     ELSE [w EXCEPT !.invs[id].pc = "blob"]

\* (variant: a failed fetch is passed over as if it had succeeded)
AwaitFetch_skip(w, id) ==
  LET v == w.invs[id]
      f == v.fetch[v.i + 1]
  IN CASE f = "pending" -> [w EXCEPT !.invs[id].pc = "fetch"]
       [] f \in {"ok", "notok", "rejected"} -> GotResponse(w, id)
       [] OTHER -> Catch(w, id, TRUE)

\* const resp = await nextResp, on the fetch of chunk i.
AwaitFetch(w, id) ==
  LET v == w.invs[id]
      f == v.fetch[v.i + 1]
  IN CASE f = "pending" -> [w EXCEPT !.invs[id].pc = "fetch"]
       [] f = "ok" -> GotResponse(w, id)
       [] f = "notok" -> [w EXCEPT !.invs[id].pc = "json"]
       [] f = "rejected" -> Catch(w, id, FALSE)
       [] OTHER -> Catch(w, id, TRUE)

\* (variant: the loop does not look at the signal)
LoopHead_nocheck(w, id) ==
  LET v == w.invs[id]
  IN IF v.i >= Len(v.chunks) THEN AfterLoop(w, id) ELSE AwaitFetch(w, id)

\* for (...; i < chunks.length; ...) { if (ac.signal.aborted) break; ...
LoopHead(w, id) ==
  LET v == w.invs[id]
  IN IF v.i >= Len(v.chunks) \/ v.aborted
     THEN AfterLoop(w, id)
     ELSE AwaitFetch(w, id)

\* The playback wait of chunk i resolved: i++ and the next iteration.
Resume(w, id) == LoopHead([w EXCEPT !.invs[id].i = @ + 1], id)

\* Is the invocation suspended in the playback wait of chunk k?
WaitsOn(v, k) == v.pc = "play" /\ v.i + 1 = k

\* ------------------------------------------------------ media and abort
\* audio.pause(): playback stops.  A play() promise still pending is rejected,
\* and its catch handler (247) revokes the URL and resolves the wait.
PauseAudio(a) ==
  CASE a.st = "starting" -> [st |-> "paused", revoked |-> a.revoked + 1]
    [] a.st = "sounding" -> [a EXCEPT !.st = "paused"]
    [] OTHER -> a

\* The abort listener of one Audio (246): pause, revoke, resolve.  It is
\* registered when the Audio is made and stays registered until it has run.
AbortListener(a) ==
  IF a.st = "none" THEN a ELSE [PauseAudio(a) EXCEPT !.revoked = @ + 1]

\* The fetches an abort rejects while nothing awaits them: the prefetch of the
\* next chunk, held in nextResp, when the loop is not at `await nextResp`.
Unawaited(v) ==
  {k \in DOMAIN v.fetch : v.fetch[k] = "pending" /\ ~(v.pc = "fetch" /\ k = v.i + 1)}

\* ac.abort(): the signal is set, every listener runs, every pending fetch is
\* rejected with an AbortError; then the suspended playTTS continues.  What it
\* does from there touches only its own locals, so it is run here.  A body that
\* is being downloaded either is cut off or has arrived already: resp.blob()
\* settles in a later task, rejected or resolved, and the call stays at its
\* await until then.  A rejected promise that never gets a handler is reported
\* by the browser as an unhandled rejection (history: onCancel).
Abort(w, id) ==
  LET v == w.invs[id]
      w1 == [w EXCEPT
               !.invs[id].aborted = TRUE,
               !.invs[id].onCancel =
                  IF Unawaited(v) # {} THEN {"unhandledrejection"} ELSE {},
               !.invs[id].audio = [k \in DOMAIN v.audio |-> AbortListener(v.audio[k])],
               !.invs[id].fetch = [k \in DOMAIN v.fetch |->
                                     IF v.fetch[k] = "pending" THEN "aborted"
                                     ELSE v.fetch[k]]]
  IN IF v.aborted THEN w
     ELSE CASE v.pc = "fetch" -> Catch(w1, id, TRUE)
            [] v.pc = "json" -> Catch(w1, id, FALSE)
            [] v.pc = "blob" -> w1
            [] v.pc = "play" -> Resume(w1, id)
            [] OTHER -> w1

\* ---------------------------------------------------------------- stopTTS
\* (variant: the handle is dropped without signalling it)
StopAbort_drop(w) == [w EXCEPT !.ttsAbort = 0]

\* if (_ttsAbort) { _ttsAbort.abort(); _ttsAbort = null; }
StopAbort(w) ==
  IF w.ttsAbort # 0 THEN [Abort(w, w.ttsAbort) EXCEPT !.ttsAbort = 0] ELSE w

\* if (currentAudio) { currentAudio.pause(); currentAudio = null; }
StopAudio(w) ==
  IF w.currentAudio = NoAudio THEN w
  ELSE LET id == w.currentAudio[1]
           k == w.currentAudio[2]
           a == w.invs[id].audio[k]
           w1 == [w EXCEPT !.invs[id].audio[k] = PauseAudio(a),
                           !.currentAudio = NoAudio]
       IN IF a.st = "starting" /\ WaitsOn(w.invs[id], k) THEN Resume(w1, id) ELSE w1

\* (variant: no button is reset)
StopBtns_none(w) == w

\* (variant: only playing buttons are reset)
StopBtns_playing(w) ==
  [w EXCEPT !.btns = [b \in DOMAIN w.btns |->
                        IF w.btns[b].cls = "playing"
                        THEN ResetBtn(w.btns[b]) ELSE w.btns[b]]]

\* querySelectorAll('.tts-btn.playing, .tts-btn.loading').forEach(reset)
StopBtns(w) ==
  [w EXCEPT !.btns = [b \in DOMAIN w.btns |->
                        IF w.btns[b].cls \in {"playing", "loading"}
                        THEN ResetBtn(w.btns[b]) ELSE w.btns[b]]]

stopTTS(w) == StopBtns(StopAudio(StopAbort(w)))

\* ---------------------------------------------------------------- playTTS
Active(v) == ~v.aborted /\ v.pc # "done"
Audible(a) == a.st \in {"starting", "sounding"}

\* What the document looks like at the instant a call issues its first fetch
\* (history kept with the call; `before` is the state the call started from).
FetchView(w, before) ==
  [live |-> {x \in DOMAIN w.invs : Active(w.invs[x])},
   pending |-> {x \in DOMAIN w.invs :
                  \E k \in DOMAIN w.invs[x].fetch : w.invs[x].fetch[k] = "pending"},
   audible |-> {x \in DOMAIN w.invs :
                  \E k \in DOMAIN w.invs[x].audio : Audible(w.invs[x].audio[k])},
   unreleased |-> {x \in DOMAIN w.invs :
                     \E k \in DOMAIN w.invs[x].audio :
                        /\ w.invs[x].audio[k].st # "none"
                        /\ w.invs[x].audio[k].revoked = 0},
   busy |-> {b \in DOMAIN w.btns : w.btns[b].cls # "idle"},
   stopBound |-> {b \in DOMAIN w.btns : w.btns[b].onclick = "stop"},
   aborted |-> {x \in DOMAIN w.invs : w.invs[x].aborted},
   interrupted |-> {x \in DOMAIN before.invs : Active(before.invs[x])},
   cut |-> {x \in DOMAIN before.invs :
              \E k \in DOMAIN before.invs[x].audio : Audible(before.invs[x].audio[k])}]

\* ac = new AbortController(); _ttsAbort = ac; the button shows loading.
Loading(w, btn) ==
  [w EXCEPT !.ttsAbort = Len(w.invs) + 1,
            !.btns[btn].disabled = TRUE,
            !.btns[btn].cls = "loading"]

\* chunks = splitBySentence(text); nextResp = fetch(chunks[0]); the loop
\* suspends at its first await.
FirstFetch(w, text, btn, before) ==
  LET chunks == splitBySentence(text)
      v == [text |-> text, chunks |-> chunks, btn |-> btn, i |-> 0, pc |-> "fetch",
            aborted |-> FALSE, logged |-> FALSE, onCancel |-> {}, blobFailed |-> FALSE,
            late |-> FALSE,
            fetch |-> [k \in 1..Len(chunks) |-> IF k = 1 THEN "pending" ELSE "none"],
            audio |-> [k \in 1..Len(chunks) |-> NoAudioRec],
            seen |-> FetchView(w, before)]
  IN [w EXCEPT !.invs = Append(@, v)]

playTTS(w, text, btn) == FirstFetch(Loading(stopTTS(w), btn), text, btn, w)

\* --------------------------------------------- continuations of playTTS
\* The fetch of chunk k settles: a response that is ok or not, or a rejection.
fetchSettled(w, id, k, outcome) ==
  LET v == w.invs[id]
      w1 == [w EXCEPT !.invs[id].fetch[k] = outcome]
  IN IF v.pc = "fetch" /\ v.i + 1 = k THEN AwaitFetch(w1, id) ELSE w1

\* err = await resp.json().catch(() => ({})); throw new Error(...)
jsonSettled(w, id) == Catch(w, id, FALSE)

\* (variant: the loop does not wait for the playback to end)
blobResolved_nowait(w, id) ==
  LET v == w.invs[id]
      k == v.i + 1
      w1 == [w EXCEPT !.invs[id].audio[k] = [st |-> "starting", revoked |-> 0],
                      !.currentAudio = <<id, k>>,
                      !.invs[id].pc = "play"]
  IN IF v.aborted THEN AfterLoop(w, id) ELSE Resume(w1, id)

\* A cancelled call goes on after its body download settled (history: late,
\* whether another call's Audio was the current one by then).
Late(w, id) == [w EXCEPT !.invs[id].late = (w.currentAudio # NoAudio)]

\* blob = await resp.blob() resolved: if (ac.signal.aborted) break; else make
\* the Audio and play it.
blobResolved(w, id) ==
  LET v == w.invs[id]
      k == v.i + 1
      w1 == [w EXCEPT !.invs[id].audio[k] = [st |-> "starting", revoked |-> 0],
                      !.currentAudio = <<id, k>>,
                      !.invs[id].pc = "play"]
  IN IF v.aborted THEN AfterLoop(Late(w, id), id)
     ELSE IF v.i = 0
          THEN [w1 EXCEPT !.btns[v.btn] =
                  [@ EXCEPT !.disabled = FALSE, !.cls = "playing", !.onclick = "stop"]]
          ELSE w1

\* resp.blob() rejected (the body could not be read).
blobRejected(w, id) == Catch([w EXCEPT !.invs[id].blobFailed = TRUE], id, FALSE)

\* resp.blob() rejected with an AbortError (the download was cut off).
blobAborted(w, id) == Catch(Late(w, id), id, TRUE)

\* A handler of the playback wait ran: the wait resolves if it is still open.
Resolve(w, id, k) == IF WaitsOn(w.invs[id], k) THEN Resume(w, id) ELSE w

\* (variant: the end of the audio does not resolve the wait)
onended_hang(w, id, k) ==
  [w EXCEPT !.invs[id].audio[k] = [st |-> "ended", revoked |-> @.revoked + 1]]

\* audio.onended (244)
onended(w, id, k) ==
  Resolve([w EXCEPT !.invs[id].audio[k] = [st |-> "ended", revoked |-> @.revoked + 1]],
          id, k)

\* (variant: a media error ends the narration)
onerror_abort(w, id, k) ==
  LET a == w.invs[id].audio[k]
      w1 == [w EXCEPT !.invs[id].audio[k] = [st |-> "errored", revoked |-> a.revoked + 1]]
  IN IF WaitsOn(w.invs[id], k) THEN Catch(w1, id, FALSE) ELSE w1

\* audio.onerror (245); a play() promise still pending is rejected with it (247).
onerror(w, id, k) ==
  LET a == w.invs[id].audio[k]
      n == IF a.st = "starting" THEN 2 ELSE 1
  IN Resolve([w EXCEPT !.invs[id].audio[k] = [st |-> "errored", revoked |-> a.revoked + n]],
             id, k)

\* (variant: the catch handler resolves without revoking)
playRejected_leak(w, id, k) ==
  Resolve([w EXCEPT !.invs[id].audio[k] = [st |-> "blocked", revoked |-> @.revoked]],
          id, k)

\* audio.play() rejected on its own (247), e.g. playback not allowed.
playRejected(w, id, k) ==
  Resolve([w EXCEPT !.invs[id].audio[k] = [st |-> "blocked", revoked |-> @.revoked + 1]],
          id, k)

\* ---------------------------------------------------- narration actions
TTSTexts == { <<"a">>, <<"a", "!", "b">>, <<"a", "!", "b", "?", "c">> }

\* A finished turn hands its text to narration (482-484).
AutoPlay ==
  \E text \in TTSTexts :
    /\ Len(btns) < MaxBtn
    /\ LET w == [World EXCEPT !.btns = Append(@, makeTTSButton(text))]
       IN Becomes(playTTS(w, text, Len(w.btns)))

\* btn.onclick of an enabled button: playTTS(text, btn) or stopTTS().
ClickPlay ==
  \E b \in DOMAIN btns :
    /\ ~btns[b].disabled /\ btns[b].onclick = "play"
    /\ Becomes(playTTS(World, btns[b].text, b))

ClickStop ==
  \E b \in DOMAIN btns :
    /\ ~btns[b].disabled /\ btns[b].onclick = "stop"
    /\ Becomes(stopTTS(World))

FetchOk ==
  \E id \in DOMAIN invs : \E k \in DOMAIN invs[id].fetch :
    /\ invs[id].fetch[k] = "pending"
    /\ Becomes(fetchSettled(World, id, k, "ok"))

FetchFail ==
  \E id \in DOMAIN invs : \E k \in DOMAIN invs[id].fetch :
    \E outcome \in {"notok", "rejected"} :
      /\ invs[id].fetch[k] = "pending"
      /\ Fails(fetchSettled(World, id, k, outcome))

JsonSettle ==
  \E id \in DOMAIN invs :
    /\ invs[id].pc = "json"
    /\ Becomes(jsonSettled(World, id))

BlobResolve ==
  \E id \in DOMAIN invs :
    /\ invs[id].pc = "blob"
    /\ Becomes(blobResolved(World, id))

BlobReject ==
  \E id \in DOMAIN invs :
    /\ invs[id].pc = "blob" /\ ~invs[id].aborted
    /\ Fails(blobRejected(World, id))

BlobAbort ==
  \E id \in DOMAIN invs :
    /\ invs[id].pc = "blob" /\ invs[id].aborted
    /\ Becomes(blobAborted(World, id))

PlayStarted ==
  \E id \in DOMAIN invs : \E k \in DOMAIN invs[id].audio :
    /\ invs[id].audio[k].st = "starting"
    /\ Becomes([World EXCEPT !.invs[id].audio[k].st = "sounding"])

PlayRejected ==
  \E id \in DOMAIN invs : \E k \in DOMAIN invs[id].audio :
    /\ invs[id].audio[k].st = "starting"
    /\ Fails(playRejected(World, id, k))

AudioEnded ==
  \E id \in DOMAIN invs : \E k \in DOMAIN invs[id].audio :
    /\ invs[id].audio[k].st = "sounding"
    /\ Becomes(onended(World, id, k))

AudioError ==
  \E id \in DOMAIN invs : \E k \in DOMAIN invs[id].audio :
    /\ Audible(invs[id].audio[k])
    /\ Fails(onerror(World, id, k))

\* ------------------------------------------- the segmenter on any text
MaxLen == 4        \* characters of a narrated text

SplitChars == {"a", ".", " ", "\n", "!", "UFF1F"}

\* "Hello world. Version 2.0 is out"
HelloText ==
  <<"H", "e", "l", "l", "o", " ", "w", "o", "r", "l", "d", ".", " ", "V", "e", "r", "s",
    "i", "o", "n", " ", "2", ".", "0", " ", "i", "s", " ", "o", "u", "t">>

\* "元気ですか？うん！", a character written by its code point
GenkiText ==
  <<"U5143", "U6C17", "U3067", "U3059", "U304B", "UFF1F", "U3046", "U3093", "UFF01">>

SplitTexts ==
  UNION {[1..n -> SplitChars] : n \in 0..MaxLen} \cup {HelloText, GenkiText}

\* A page that shows one message with a narration button made for `text`
\* (makeTTSButton, 261-269), nothing narrated yet.
SplitInit ==
  /\ \E text \in SplitTexts : btns = <<makeTTSButton(text)>>
  /\ currentAudio = NoAudio
  /\ ttsAbort = 0
  /\ invs = <<>>
  /\ currentMode = "angel"
  /\ isStreaming = FALSE
  /\ hasMessages = TRUE
  /\ chatInput = <<>>
  /\ sendDisabled = FALSE
  /\ expression = "smile"
  /\ msgs = <<>>
  /\ toolBox = [exists |-> FALSE, rows |-> <<>>]
  /\ confirms = <<>>
  /\ sendPc = "idle"
  /\ streamBody = 0
  /\ rawText = <<>>
  /\ decoderPending = <<>>
  /\ buffer = <<>>
  /\ currentEvent = <<"m", "e", "s", "s", "a", "g", "e">>
  /\ wire = <<>>
  /\ emitted = 0
  /\ faults = 0
  /\ tracking = FALSE
  /\ sent = <<>>
  /\ lineLog = <<>>
  /\ turn = [n |-> 0, token |-> FALSE, done |-> FALSE, err |-> FALSE, plays |-> 0,
             attached |-> <<>>, split |-> FALSE, tools |-> FALSE, orphan |-> FALSE]
  /\ start = <<>>

\* The button is clicked; its chunks are fetched and played, or it is stopped.
SplitNext ==
  \/ ClickPlay \/ ClickStop
  \/ FetchOk \/ BlobResolve \/ PlayStarted \/ AudioEnded

SpecSplit == SplitInit /\ [][SplitNext]_vars

\* ========================================================= text constants
EventPrefix == <<"e", "v", "e", "n", "t", ":", " ">>

DataPrefix == <<"d", "a", "t", "a", ":", " ">>

E_message == <<"m", "e", "s", "s", "a", "g", "e">>

E_token == <<"t", "o", "k", "e", "n">>

E_tool_start == <<"t", "o", "o", "l", "_", "s", "t", "a", "r", "t">>

E_tool_done == <<"t", "o", "o", "l", "_", "d", "o", "n", "e">>

E_confirm_action == <<"c", "o", "n", "f", "i", "r", "m", "_", "a", "c", "t", "i", "o", "n">>

E_llm_retry == <<"l", "l", "m", "_", "r", "e", "t", "r", "y">>

E_done == <<"d", "o", "n", "e">>

E_error == <<"e", "r", "r", "o", "r">>

UndefinedChars == <<"u", "n", "d", "e", "f", "i", "n", "e", "d">>

J_tokA == <<"{", "\"", "t", "o", "k", "e", "n", "\"", ":", "\"", "a", "\"", "}">>

J_tokB == <<"{", "\"", "t", "o", "k", "e", "n", "\"", ":", "\"", "U00E9", "!", "\"", "}">>

J_tokNone == <<"{", "\"", "t", "o", "k", "e", "n", "\"", ":", "\"", "\"", "}">>

J_done ==
  <<"{", "\"", "m", "o", "d", "e", "\"", ":", "\"", "p", "s", "y", "c", "h", "o", "\"", ",",
    "\"", "e", "x", "p", "r", "e", "s", "s", "i", "o", "n", "\"", ":", "\"", "s", "m", "i",
    "r", "k", "\"", "}">>

J_error == <<"{", "\"", "e", "r", "r", "o", "r", "\"", ":", "\"", "x", "\"", "}">>

J_start1 ==
  <<"{", "\"", "t", "o", "o", "l", "\"", ":", "\"", "c", "a", "l", "c", "u", "l", "a", "t",
    "e", "\"", ",", "\"", "c", "a", "l", "l", "_", "i", "d", "\"", ":", "\"", "c", "1", "\"",
    "}">>

J_done1 ==
  <<"{", "\"", "t", "o", "o", "l", "\"", ":", "\"", "c", "a", "l", "c", "u", "l", "a", "t",
    "e", "\"", ",", "\"", "c", "a", "l", "l", "_", "i", "d", "\"", ":", "\"", "c", "1", "\"",
    ",", "\"", "s", "u", "m", "m", "a", "r", "y", "\"", ":", "\"", "4", "2", "\"", "}">>

J_done2 ==
  <<"{", "\"", "t", "o", "o", "l", "\"", ":", "\"", "x", "\"", ",", "\"", "c", "a", "l", "l",
    "_", "i", "d", "\"", ":", "\"", "c", "2", "\"", "}">>

J_retry ==
  <<"{", "\"", "a", "t", "t", "e", "m", "p", "t", "\"", ":", "2", ",", "\"", "w", "a", "i",
    "t", "_", "s", "e", "c", "o", "n", "d", "s", "\"", ":", "1", ".", "5", "}">>

J_confirm ==
  <<"{", "\"", "a", "c", "t", "i", "o", "n", "_", "i", "d", "\"", ":", "\"", "a", "1", "\"",
    "}">>

J_bad == <<"{", "\"", "t", "\"", ":">>

\* JSON.parse, on the payload texts the modelled server sends: the value of each
\* text that is JSON; any other text (J_bad is cut off mid-object) throws.
\* The number 1.5 is kept in tenths.
JSONparse(t) ==
  CASE t = J_tokA -> [ok |-> TRUE, value |-> [token |-> <<"a">>]]
    [] t = J_tokB -> [ok |-> TRUE, value |-> [token |-> <<"U00E9", "!">>]]
    [] t = J_tokNone -> [ok |-> TRUE, value |-> [token |-> <<>>]]
    [] t = J_done -> [ok |-> TRUE, value |-> [mode |-> "psycho", expression |-> "smirk"]]
    [] t = J_error -> [ok |-> TRUE, value |-> [error |-> <<"x">>]]
    [] t = J_start1 -> [ok |-> TRUE, value |-> [tool |-> "calculate", call_id |-> "c1"]]
    [] t = J_done1 -> [ok |-> TRUE, value |-> [tool |-> "calculate", call_id |-> "c1", summary |-> <<"4", "2">>]]
    [] t = J_done2 -> [ok |-> TRUE, value |-> [tool |-> "x", call_id |-> "c2"]]
    [] t = J_retry -> [ok |-> TRUE, value |-> [attempt |-> 2, wait_seconds |-> 15]]
    [] t = J_confirm -> [ok |-> TRUE, value |-> [action_id |-> "a1"]]
    [] OTHER -> [ok |-> FALSE, value |-> [thrown |-> TRUE]]

B_ev_token == <<"e", "v", "e", "n", "t", ":", " ", "t", "o", "k", "e", "n", "\n">>

B_ev_tool_start ==
  <<"e", "v", "e", "n", "t", ":", " ", "t", "o", "o", "l", "_", "s", "t", "a", "r", "t", "\n">>

B_ev_tool_done ==
  <<"e", "v", "e", "n", "t", ":", " ", "t", "o", "o", "l", "_", "d", "o", "n", "e", "\n">>

B_ev_confirm_action ==
  <<"e", "v", "e", "n", "t", ":", " ", "c", "o", "n", "f", "i", "r", "m", "_", "a", "c", "t",
    "i", "o", "n", "\n">>

B_ev_llm_retry ==
  <<"e", "v", "e", "n", "t", ":", " ", "l", "l", "m", "_", "r", "e", "t", "r", "y", "\n">>

B_ev_done == <<"e", "v", "e", "n", "t", ":", " ", "d", "o", "n", "e", "\n">>

B_ev_error == <<"e", "v", "e", "n", "t", ":", " ", "e", "r", "r", "o", "r", "\n">>

B_ev_ping == <<"e", "v", "e", "n", "t", ":", " ", "p", "i", "n", "g", "\n">>

B_tokA ==
  <<"d", "a", "t", "a", ":", " ", "{", "\"", "t", "o", "k", "e", "n", "\"", ":", "\"", "a",
    "\"", "}", "\n">>

B_tokB ==
  <<"d", "a", "t", "a", ":", " ", "{", "\"", "t", "o", "k", "e", "n", "\"", ":", "\"", "C3",
    "A9", "!", "\"", "}", "\n">>

B_tokNone ==
  <<"d", "a", "t", "a", ":", " ", "{", "\"", "t", "o", "k", "e", "n", "\"", ":", "\"", "\"",
    "}", "\n">>

B_done ==
  <<"d", "a", "t", "a", ":", " ", "{", "\"", "m", "o", "d", "e", "\"", ":", "\"", "p", "s",
    "y", "c", "h", "o", "\"", ",", "\"", "e", "x", "p", "r", "e", "s", "s", "i", "o", "n",
    "\"", ":", "\"", "s", "m", "i", "r", "k", "\"", "}", "\n">>

B_error ==
  <<"d", "a", "t", "a", ":", " ", "{", "\"", "e", "r", "r", "o", "r", "\"", ":", "\"", "x",
    "\"", "}", "\n">>

B_start1 ==
  <<"d", "a", "t", "a", ":", " ", "{", "\"", "t", "o", "o", "l", "\"", ":", "\"", "c", "a",
    "l", "c", "u", "l", "a", "t", "e", "\"", ",", "\"", "c", "a", "l", "l", "_", "i", "d",
    "\"", ":", "\"", "c", "1", "\"", "}", "\n">>

B_done1 ==
  <<"d", "a", "t", "a", ":", " ", "{", "\"", "t", "o", "o", "l", "\"", ":", "\"", "c", "a",
    "l", "c", "u", "l", "a", "t", "e", "\"", ",", "\"", "c", "a", "l", "l", "_", "i", "d",
    "\"", ":", "\"", "c", "1", "\"", ",", "\"", "s", "u", "m", "m", "a", "r", "y", "\"", ":",
    "\"", "4", "2", "\"", "}", "\n">>

B_done2 ==
  <<"d", "a", "t", "a", ":", " ", "{", "\"", "t", "o", "o", "l", "\"", ":", "\"", "x", "\"",
    ",", "\"", "c", "a", "l", "l", "_", "i", "d", "\"", ":", "\"", "c", "2", "\"", "}", "\n">>

B_retry ==
  <<"d", "a", "t", "a", ":", " ", "{", "\"", "a", "t", "t", "e", "m", "p", "t", "\"", ":", "2",
    ",", "\"", "w", "a", "i", "t", "_", "s", "e", "c", "o", "n", "d", "s", "\"", ":", "1", ".",
    "5", "}", "\n">>

B_confirm ==
  <<"d", "a", "t", "a", ":", " ", "{", "\"", "a", "c", "t", "i", "o", "n", "_", "i", "d", "\"",
    ":", "\"", "a", "1", "\"", "}", "\n">>

B_bad == <<"d", "a", "t", "a", ":", " ", "{", "\"", "t", "\"", ":", "\n">>

B_blank == <<"\n">>

\* A token data line that lacks its newline.
B_tokB_open == SubSeq(B_tokB, 1, Len(B_tokB) - 1)

\* =================================================== the turn: sendMessage
Sentinel == E_message
Angel == "angel"
Smile == "smile"
Undefined == "undefined"

\* data.f of a parsed payload, for a field holding text and for any other.
HasField(data, f) == f \in DOMAIN data
GetText(data, f) == IF HasField(data, f) THEN data[f] ELSE UndefinedChars
Get(data, f) == IF HasField(data, f) THEN data[f] ELSE Undefined

\* ---- strings
startsWith(line, prefix) ==
  Len(line) >= Len(prefix) /\ SubSeq(line, 1, Len(prefix)) = prefix

slice(line, n) == SubSeq(line, n + 1, Len(line))

\* buffer.split('\n'): the pieces between newlines; the last is the rest.
split(s) ==
  LET nl == {i \in 1..Len(s) : s[i] = "\n"}
      n == Cardinality(nl)
      cut == [k \in 0..(n + 1) |->
                IF k = 0 THEN 0
                ELSE IF k = n + 1 THEN Len(s) + 1
                ELSE CHOOSE i \in nl : Cardinality({j \in nl : j < i}) = k - 1]
  IN [k \in 1..(n + 1) |-> SubSeq(s, cut[k - 1] + 1, cut[k] - 1)]

\* f[lo] \o ... \o f[hi]
RECURSIVE Concat(_, _, _)
Concat(f, lo, hi) ==
  IF lo > hi THEN <<>>
  ELSE IF lo = hi THEN f[lo]
  ELSE LET mid == (lo + hi) \div 2 IN Concat(f, lo, mid) \o Concat(f, mid + 1, hi)

\* ---- TextDecoder.decode(value, {stream: true}), for UTF-8 of one and two
\* bytes: a lead byte is held back until its continuation byte arrives; a lead
\* byte that is not continued, and a continuation byte without a lead, decode
\* to U+FFFD.
LeadBytes == {"C3"}
ContBytes == {"A9"}
Replacement == "UFFFD"
TwoByteChar(lead, cont) == IF lead = "C3" /\ cont = "A9" THEN "U00E9" ELSE Replacement

Decode(pending, bytes) ==
  LET all == pending \o bytes
      n == Len(all)
      held(i) == i >= 1 /\ all[i] \in LeadBytes
      emit == [i \in 1..n |->
                 LET b == all[i] IN
                 IF b \in LeadBytes
                 THEN IF held(i - 1) THEN <<Replacement>> ELSE <<>>
                 ELSE IF b \in ContBytes
                 THEN IF held(i - 1) THEN <<TwoByteChar(all[i - 1], b)>>
                      ELSE <<Replacement>>
                 ELSE IF held(i - 1) THEN <<Replacement, b>> ELSE <<b>>]
  IN [chars |-> Concat(emit, 1, n), pending |-> IF held(n) THEN <<all[n]>> ELSE <<>>]

\* ---- the document
EmptyBody == [kind |-> "empty", text |-> <<>>]
marked(text) == [kind |-> "markdown", text |-> text]
ErrorBody(text) == [kind |-> "error", text |-> text]
ConnectionErrorBody == [kind |-> "connection-error", text |-> <<>>]

NoToolBox == [exists |-> FALSE, rows |-> <<>>]
ToolRowId(callId) == <<"tool", callId>>
RetryRowId == <<"llm-retry-status", "">>

NoTurn ==
  [n |-> 0, token |-> FALSE, done |-> FALSE, err |-> FALSE, plays |-> 0,
   attached |-> <<>>, split |-> FALSE, tools |-> FALSE, orphan |-> FALSE]

\* The least index of the set S, or 0: the first element the document holds.
FirstIndex(S) == IF S = {} THEN 0 ELSE CHOOSE j \in S : \A h \in S : j <= h

setMode(w, mode) == [w EXCEPT !.currentMode = mode]

setExpression(w, e) == [w EXCEPT !.expression = e]

shrinkGreeting(w) == [w EXCEPT !.hasMessages = TRUE]

addMessageUser(w, content) ==
  [shrinkGreeting(w) EXCEPT
     !.msgs = Append(@, [role |-> "user", sid |-> FALSE, cls |-> "", cursor |-> FALSE,
                         body |-> [kind |-> "text", text |-> content], tts |-> <<>>])]

\* The new element is the last of the document; its body is what is returned.
createStreamingMessage(w) ==
  [shrinkGreeting(w) EXCEPT
     !.msgs = Append(@, [role |-> "assistant", sid |-> TRUE, cls |-> w.currentMode,
                         cursor |-> TRUE, body |-> EmptyBody, tts |-> <<>>])]

HasStreamingId(m) == m.sid

\* document.getElementById('streaming-msg'): the first element with that id.
getStreamingMsg(w) == FirstIndex({j \in DOMAIN w.msgs : HasStreamingId(w.msgs[j])})

\* ---- tool rows
TOOL_LABELS(tool) ==
  CASE tool = "web_search" -> "Web Search"
    [] tool = "fetch_url" -> "Fetch URL"
    [] tool = "get_current_time" -> "Current Time"
    [] tool = "calculate" -> "Calculate"
    [] tool = "delete_calendar_event" -> "Delete Event"
    [] OTHER -> tool

PreviewLen == 60
Ellipsis == <<".", ".", ".">>

\* (history: turn.tools, the container was made in this turn)
getToolStatusContainer(w) ==
  IF w.toolBox.exists THEN w
  ELSE [w EXCEPT !.toolBox = [exists |-> TRUE, rows |-> <<>>], !.turn.tools = TRUE]

addToolStart(w, tool, callId) ==
  [getToolStatusContainer(w) EXCEPT
     !.toolBox.rows = Append(@, [id |-> ToolRowId(callId), cls |-> "running",
                                 label |-> TOOL_LABELS(tool),
                                 detail |-> [kind |-> "running"]])]

\* (variant: a completion without a row makes one)
addToolDone_make(w, tool, callId, data) ==
  [getToolStatusContainer(w) EXCEPT
     !.toolBox.rows = Append(@, [id |-> ToolRowId(callId), cls |-> "done",
                                 label |-> TOOL_LABELS(tool),
                                 detail |-> [kind |-> "summary", text |-> <<>>]])]

\* if (!item) return;  (history: turn.orphan, a completion found no row)
addToolDone(w, tool, callId, data) ==
  LET IsRow(r) == r.id = ToolRowId(callId)
      j == FirstIndex({h \in DOMAIN w.toolBox.rows : IsRow(w.toolBox.rows[h])})
      summary == IF HasField(data, "summary") THEN data.summary ELSE <<>>
      short == IF Len(summary) > PreviewLen
               THEN SubSeq(summary, 1, PreviewLen) \o Ellipsis
               ELSE IF summary # <<>> THEN summary ELSE <<"d", "o", "n", "e">>
  IN IF j = 0 THEN [w EXCEPT !.turn.orphan = TRUE]
     ELSE [w EXCEPT !.toolBox.rows[j] =
             [id |-> @.id, cls |-> "done", label |-> TOOL_LABELS(tool),
              detail |-> [kind |-> "summary", text |-> short]]]

clearToolStatus(w) == [w EXCEPT !.toolBox = NoToolBox]

IsRetryRow(r) == r.id = RetryRowId
NotRetryRow(r) == r.id # RetryRowId

\* attempt || 1, max_retries || 5, Number(wait_seconds || 0).toFixed(1)
showLLMRetryStatus(w, data) ==
  LET w1 == getToolStatusContainer(w)
      w2 == IF FirstIndex({h \in DOMAIN w1.toolBox.rows : IsRetryRow(w1.toolBox.rows[h])}) = 0
            THEN [w1 EXCEPT !.toolBox.rows =
                    Append(@, [id |-> RetryRowId, cls |-> "running", label |-> "",
                               detail |-> [kind |-> "empty"]])]
            ELSE w1
      j == FirstIndex({h \in DOMAIN w2.toolBox.rows : IsRetryRow(w2.toolBox.rows[h])})
      attempt == IF HasField(data, "attempt") /\ data.attempt # 0 THEN data.attempt ELSE 1
      maxRetries == IF HasField(data, "max_retries") /\ data.max_retries # 0
                    THEN data.max_retries ELSE 5
      tenths == IF HasField(data, "wait_seconds") THEN data.wait_seconds ELSE 0
  IN [w2 EXCEPT !.toolBox.rows[j].label = "Cerebras",
                !.toolBox.rows[j].detail =
                   [kind |-> "retry", attempt |-> attempt, maxRetries |-> maxRetries,
                    wait |-> <<tenths \div 10, tenths % 10>>]]

clearLLMRetryStatus(w) == [w EXCEPT !.toolBox.rows = SelectSeq(@, NotRetryRow)]

showConfirmAction(w, data) == [w EXCEPT !.confirms = Append(@, Get(data, "action_id"))]

\* ---- the handlers of the event types (441-497)
\* const ttsBtn = makeTTSButton(rawText); hdr.appendChild(ttsBtn); playTTS(...)
attachAndPlay(w, m) ==
  LET b == Len(w.btns) + 1
      w1 == [w EXCEPT !.btns = Append(@, makeTTSButton(w.rawText)),
                      !.msgs[m].tts = Append(@, b),
                      !.turn.plays = @ + 1,
                      !.turn.attached = Append(@, m)]
  IN playTTS(w1, w.rawText, b)

\* History: a done or an error event was handled in this turn.
Seal(w, kind) ==
  IF kind = "done" THEN [w EXCEPT !.turn.done = TRUE] ELSE [w EXCEPT !.turn.err = TRUE]

\* (variant: a token leaves the retry row in place)
onToken_keep(w, data) ==
  LET w1 == IF w.streamBody = 0
            THEN LET c == createStreamingMessage(w) IN [c EXCEPT !.streamBody = Len(c.msgs)]
            ELSE w
      text == w1.rawText \o GetText(data, "token")
  IN [w1 EXCEPT !.rawText = text,
                !.msgs[w1.streamBody].body = marked(text),
                !.turn.token = (@ \/ (HasField(data, "token") /\ data.token # <<>>))]

\* (variant: a token is put in front of the text)
onToken_prepend(w, data) ==
  LET w1 == IF w.streamBody = 0
            THEN LET c == createStreamingMessage(w) IN [c EXCEPT !.streamBody = Len(c.msgs)]
            ELSE w
      w2 == clearLLMRetryStatus(w1)
      text == GetText(data, "token") \o w2.rawText
  IN [w2 EXCEPT !.rawText = text,
                !.msgs[w2.streamBody].body = marked(text),
                !.turn.token = (@ \/ (HasField(data, "token") /\ data.token # <<>>))]

onToken(w, data) ==
  LET w1 == IF w.streamBody = 0
            THEN LET c == createStreamingMessage(w) IN [c EXCEPT !.streamBody = Len(c.msgs)]
            ELSE w
      w2 == clearLLMRetryStatus(w1)
      text == w2.rawText \o GetText(data, "token")
  IN [w2 EXCEPT !.rawText = text,
                !.msgs[w2.streamBody].body = marked(text),
                !.turn.token = (@ \/ (HasField(data, "token") /\ data.token # <<>>))]

onDone(w, data) ==
  LET mode == Get(data, "mode")
      w1 == setExpression(setMode(clearLLMRetryStatus(w), mode), Get(data, "expression"))
      w2 == IF w1.streamBody # 0 THEN [w1 EXCEPT !.msgs[w1.streamBody].cursor = FALSE]
            ELSE w1
      m == getStreamingMsg(w2)
      w3 == IF m = 0 THEN w2
            ELSE LET f == [w2 EXCEPT !.msgs[m].cls = mode, !.msgs[m].sid = FALSE]
                 IN IF f.rawText # <<>> THEN attachAndPlay(f, m) ELSE f
      w4 == IF w3.streamBody # 0
            THEN [w3 EXCEPT !.msgs[w3.streamBody].body = marked(w3.rawText)]
            ELSE w3
  IN Seal(w4, "done")

\* (variant: an error event clears the text of the turn)
onError_clear(w, data) ==
  LET w1 == clearLLMRetryStatus(w)
      w2 == IF w1.streamBody = 0
            THEN LET c == createStreamingMessage(w1) IN [c EXCEPT !.streamBody = Len(c.msgs)]
            ELSE w1
  IN [w2 EXCEPT !.msgs[w2.streamBody].body = ErrorBody(GetText(data, "error")),
                !.msgs[w2.streamBody].cursor = FALSE,
                !.rawText = <<>>, !.turn.err = TRUE]

onError(w, data) ==
  LET w1 == clearLLMRetryStatus(w)
      w2 == IF w1.streamBody = 0
            THEN LET c == createStreamingMessage(w1) IN [c EXCEPT !.streamBody = Len(c.msgs)]
            ELSE w1
  IN Seal([w2 EXCEPT !.msgs[w2.streamBody].body = ErrorBody(GetText(data, "error")),
                     !.msgs[w2.streamBody].cursor = FALSE],
          "error")

\* The if / else-if chain on currentEvent; any other type does nothing.
Dispatch(w, ev, data) ==
  CASE ev = E_tool_start -> addToolStart(w, Get(data, "tool"), Get(data, "call_id"))
    [] ev = E_tool_done -> addToolDone(w, Get(data, "tool"), Get(data, "call_id"), data)
    [] ev = E_token -> onToken(w, data)
    [] ev = E_confirm_action -> showConfirmAction(w, data)
    [] ev = E_llm_retry -> showLLMRetryStatus(w, data)
    [] ev = E_done -> onDone(w, data)
    [] ev = E_error -> onError(w, data)
    [] OTHER -> w

\* What a line may change besides the event type (history: lineLog.changed).
Effects(w) == [w EXCEPT !.currentEvent = Sentinel, !.lineLog = <<>>]

Logged(w, before, kind, type, parsed, payload) ==
  IF w.tracking
  THEN [w EXCEPT !.lineLog =
          Append(@, [kind |-> kind, type |-> type, parsed |-> parsed, payload |-> payload,
                     changed |-> Effects(w) # Effects(before)])]
  ELSE w

\* (variant: a payload that does not parse is reported in the message)
DataLine_report(w, line) ==
  LET p == JSONparse(slice(line, Len(DataPrefix)))
  IN IF p.ok THEN Dispatch(w, w.currentEvent, p.value)
     ELSE onError(w, [error |-> <<"x">>])

\* try { data = JSON.parse(line.slice(6)); dispatch } catch (e) {}
DataLine(w, line) ==
  LET p == JSONparse(slice(line, Len(DataPrefix)))
  IN IF p.ok THEN Dispatch(w, w.currentEvent, p.value) ELSE w

\* (variant: the event type is kept after a data line)
ProcessLine_sticky(w, line) ==
  IF startsWith(line, EventPrefix)
  THEN LET type == trim(slice(line, Len(EventPrefix)))
       IN Logged([w EXCEPT !.currentEvent = type], w, "event", type, FALSE, <<>>)
  ELSE IF startsWith(line, DataPrefix)
  THEN LET w1 == DataLine(w, line)
       IN Logged(w1, w, "data", w.currentEvent,
                 JSONparse(slice(line, Len(DataPrefix))).ok, slice(line, Len(DataPrefix)))
  ELSE Logged(w, w, "other", w.currentEvent, FALSE, <<>>)

\* One line of the for loop (432-502).
ProcessLine(w, line) ==
  IF startsWith(line, EventPrefix)
  THEN LET type == trim(slice(line, Len(EventPrefix)))
       IN Logged([w EXCEPT !.currentEvent = type], w, "event", type, FALSE, <<>>)
  ELSE IF startsWith(line, DataPrefix)
  THEN LET w1 == DataLine(w, line)
       IN Logged([w1 EXCEPT !.currentEvent = Sentinel], w, "data", w.currentEvent,
                 JSONparse(slice(line, Len(DataPrefix))).ok, slice(line, Len(DataPrefix)))
  ELSE Logged(w, w, "other", w.currentEvent, FALSE, <<>>)

RECURSIVE ProcessLines(_, _)
ProcessLines(w, lines) ==
  IF lines = <<>> THEN w ELSE ProcessLines(ProcessLine(w, Head(lines)), Tail(lines))

\* (variant: the unterminated rest is thrown away)
KeepRest_drop(lines) == <<>>

\* buffer = lines.pop() || ''
KeepRest(lines) == lines[Len(lines)]

\* One iteration of the read loop on the bytes `value` (428-502).
readChunk(w, value) ==
  LET d == Decode(w.decoderPending, value)
      lines == split(w.buffer \o d.chars)
      w1 == [w EXCEPT !.decoderPending = d.pending, !.buffer = KeepRest(lines)]
  IN ProcessLines(w1, SubSeq(lines, 1, Len(lines) - 1))

\* catch (err) (504-509)
connectionError(w) ==
  LET w1 == clearLLMRetryStatus(w)
      w2 == IF w1.streamBody = 0
            THEN LET c == createStreamingMessage(w1) IN [c EXCEPT !.streamBody = Len(c.msgs)]
            ELSE w1
  IN [w2 EXCEPT !.msgs[w2.streamBody].body = ConnectionErrorBody,
                !.msgs[w2.streamBody].cursor = FALSE]

\* Fallback (511-522)
fallback(w) ==
  LET m == getStreamingMsg(w)
  IN IF m # 0 /\ w.rawText # <<>>
     THEN LET w1 == [w EXCEPT !.msgs[m].sid = FALSE]
              w2 == IF w1.streamBody # 0
                    THEN [w1 EXCEPT !.msgs[w1.streamBody].cursor = FALSE]
                    ELSE w1
          IN IF w2.msgs[m].tts = <<>> THEN attachAndPlay(w2, m) ELSE w2
     ELSE w

\* (variant: what is left in the buffer when the stream ends is taken as a line)
finish_flush(w) ==
  LET w1 == IF w.buffer # <<>> THEN ProcessLine([w EXCEPT !.buffer = <<>>], w.buffer)
            ELSE w
  IN [clearToolStatus(clearLLMRetryStatus(fallback(w1))) EXCEPT
        !.isStreaming = FALSE, !.sendDisabled = FALSE, !.sendPc = "idle", !.wire = <<>>]

\* (variant: the indicators are left in place)
cleanup_keep(w) ==
  [w EXCEPT !.isStreaming = FALSE, !.sendDisabled = FALSE, !.sendPc = "idle",
            !.wire = <<>>]

\* Clean up (524-531); the connection of the turn is gone.
cleanup(w) ==
  [clearToolStatus(clearLLMRetryStatus(w)) EXCEPT
     !.isStreaming = FALSE, !.sendDisabled = FALSE, !.sendPc = "idle", !.wire = <<>>]

finish(w) == cleanup(fallback(w))

\* (variant: a send is accepted while a turn is active)
sendMessage_open(w) ==
  LET text == trim(w.chatInput)
  IN IF text = <<>> THEN w
     ELSE [addMessageUser([w EXCEPT !.chatInput = <<>>, !.isStreaming = TRUE,
                                    !.sendDisabled = TRUE], text)
             EXCEPT !.streamBody = 0, !.rawText = <<>>, !.sendPc = "connect",
                    !.wire = <<>>, !.emitted = 0, !.sent = <<>>, !.lineLog = <<>>,
                    !.turn = [NoTurn EXCEPT !.n = w.turn.n + 1]]

\* sendMessage up to its first await (400-417).
sendMessage(w) ==
  LET text == trim(w.chatInput)
  IN IF text = <<>> \/ w.isStreaming THEN w
     ELSE [addMessageUser([w EXCEPT !.chatInput = <<>>, !.isStreaming = TRUE,
                                    !.sendDisabled = TRUE], text)
             EXCEPT !.streamBody = 0, !.rawText = <<>>, !.sendPc = "connect",
                    !.wire = <<>>, !.emitted = 0, !.sent = <<>>, !.lineLog = <<>>,
                    !.turn = [NoTurn EXCEPT !.n = w.turn.n + 1]]

\* The response arrived: reader, decoder, buffer and currentEvent (419-422).
openStream(w) ==
  [w EXCEPT !.decoderPending = <<>>, !.buffer = <<>>, !.currentEvent = Sentinel,
            !.sendPc = "read"]

\* The page as loaded: nothing narrated, no turn made.
PageLoaded ==
  /\ currentAudio = NoAudio
  /\ ttsAbort = 0
  /\ invs = <<>>
  /\ btns = <<>>
  /\ currentMode = Angel
  /\ isStreaming = FALSE
  /\ hasMessages = FALSE
  /\ chatInput = <<>>
  /\ sendDisabled = FALSE
  /\ expression = Smile
  /\ msgs = <<>>
  /\ toolBox = NoToolBox
  /\ confirms = <<>>
  /\ sendPc = "idle"
  /\ streamBody = 0
  /\ rawText = <<>>
  /\ decoderPending = <<>>
  /\ buffer = <<>>
  /\ currentEvent = Sentinel
  /\ wire = <<>>
  /\ emitted = 0
  /\ faults = 0
  /\ sent = <<>>
  /\ lineLog = <<>>
  /\ turn = NoTurn
  /\ start = <<>>

TTSInit == PageLoaded /\ tracking = FALSE

TTSNext ==
  \/ AutoPlay \/ ClickPlay \/ ClickStop
  \/ FetchOk \/ FetchFail \/ JsonSettle \/ BlobResolve \/ BlobReject \/ BlobAbort
  \/ PlayStarted \/ PlayRejected \/ AudioEnded \/ AudioError

SpecTTS == TTSInit /\ [][TTSNext]_vars

\* The same, every playback wait settling in the end: an audio that was started
\* begins to sound, and one that sounds comes to its end (unless it fails or
\* is stopped first).  Nothing is assumed of the network or of the user.
SpecLive ==
  /\ TTSInit /\ [][TTSNext]_vars
  /\ WF_vars(PlayStarted)
  /\ WF_vars(AudioEnded)

\* ------------------------------------------------------- the turn's actions
MaxTurns == 2      \* turns in one behaviour
MaxEmit == 3       \* bursts (lines or events) the server sends in one turn

InputTexts == { <<"h", "i">>, <<" ">> }

\* An event as the server frames it: event line, data line, blank line.
Frame(ev, data) == ev \o data \o B_blank

Frames ==
  { Frame(B_ev_token, B_tokA), Frame(B_ev_token, B_tokB), Frame(B_ev_token, B_tokNone),
    Frame(B_ev_token, B_bad), Frame(B_ev_done, B_done), Frame(B_ev_error, B_error),
    Frame(B_ev_tool_start, B_start1), Frame(B_ev_tool_done, B_done1),
    Frame(B_ev_tool_done, B_done2), Frame(B_ev_llm_retry, B_retry),
    Frame(B_ev_confirm_action, B_confirm), Frame(B_ev_ping, B_tokA) }

Lines ==
  { B_ev_token, B_ev_done, B_tokB, B_bad, B_blank, B_ev_token \o B_bad, B_tokB_open }

TurnLimit == IF tracking THEN 1 ELSE MaxTurns

\* Enter in the input box holding `text` (635-637).
SendKey ==
  \E text \in InputTexts :
    LET w == sendMessage([World EXCEPT !.chatInput = text])
    IN w.turn.n <= TurnLimit /\ Becomes(w)

\* fetch('/api/chat') resolved.
ChatResponse ==
  /\ sendPc = "connect"
  /\ LET w == openStream(World)
     IN Assign(w) /\ faults' = faults /\ start' = IF tracking THEN w ELSE <<>>

\* fetch('/api/chat') rejected.
ChatFail ==
  /\ sendPc = "connect"
  /\ Fails(finish(connectionError(World)))

Emit(burst) ==
  /\ sendPc = "read"
  /\ emitted < MaxEmit
  /\ Becomes([World EXCEPT !.wire = @ \o burst, !.emitted = @ + 1,
                           !.sent = IF tracking THEN @ \o burst ELSE @])

\* The server sends one event, once the previous one has been read.
EmitFrame == \E f \in Frames : wire = <<>> /\ Emit(f)

\* The server sends one line.
EmitLine == \E l \in Lines : Emit(l)

\* reader.read() returned the next k bytes.
Read(k) ==
  /\ sendPc = "read"
  /\ LET w == readChunk([World EXCEPT !.wire = SubSeq(@, k + 1, Len(@))],
                        SubSeq(wire, 1, k))
     IN Becomes([w EXCEPT !.turn.split = @ \/ (tracking /\ w.decoderPending # <<>>)])

ReadAny == \E k \in 1..Len(wire) : Read(k)

ReadAll == wire # <<>> /\ Read(Len(wire))

\* reader.read() returned done: the loop is left, then 511-532.
ReadDone ==
  /\ sendPc = "read"
  /\ wire = <<>>
  /\ Becomes(finish(World))

\* reader.read() rejected: catch, then 511-532.
ReadError ==
  /\ sendPc = "read"
  /\ Fails(finish(connectionError(World)))

\* Turns, each event delivered whole.
Init == PageLoaded /\ tracking = FALSE

Next ==
  \/ SendKey \/ ChatResponse \/ ChatFail
  \/ EmitFrame \/ ReadAll \/ ReadDone \/ ReadError

Spec == Init /\ [][Next]_vars

\* One turn, its bytes delivered in reads of any size, with the line history.
SSEInit == PageLoaded /\ tracking = TRUE

\* The user sends the turn's message, and types nothing while it streams.
SendFirst == sendPc = "idle" /\ SendKey

SSENext ==
  \/ SendFirst \/ ChatResponse
  \/ EmitLine \/ ReadAny \/ ReadDone

SpecSSE == SSEInit /\ [][SSENext]_vars

\* ================================================================ claims
Created(a) == a.st # "none"
Audios == UNION {{<<x, k>> : k \in DOMAIN invs[x].audio} : x \in DOMAIN invs}
AudioOf(xk) == invs[xk[1]].audio[xk[2]]

\* C1: at most one narration invocation is active, and no two audio resources
\* of different invocations play at the same time.
C1_SingleNarration ==
  /\ Cardinality({x \in DOMAIN invs : Active(invs[x])}) <= 1
  /\ \A p \in Audios : \A q \in Audios :
       Audible(AudioOf(p)) /\ Audible(AudioOf(q)) => p[1] = q[1]

\* A second narration is audible after it cut the first one off while it played.
C1_Witness ==
  \E x \in DOMAIN invs :
    /\ \E k \in DOMAIN invs[x].audio : invs[x].audio[k].st = "sounding"
    /\ invs[x].seen.cut # {}

\* C2: when a narration is started while another is active, the other is fully
\* torn down before the new one issues the fetch of its chunk 0: signalled, no
\* fetch of it unsettled, its audio stopped and released, its button idle.
C2_TeardownBeforeFirstFetch ==
  \A x \in DOMAIN invs :
    LET s == invs[x].seen IN
      /\ s.interrupted \subseteq s.aborted
      /\ s.live = {}
      /\ s.pending = {}
      /\ s.audible = {}
      /\ s.unreleased = {}
      /\ s.busy \subseteq {invs[x].btn}
      /\ s.stopBound = {}

\* A narration was started from another button while one was playing, and
\* another while one was still loading.
C2_Witness ==
  /\ \E x \in DOMAIN invs :
       /\ invs[x].seen.interrupted # {} /\ invs[x].seen.cut # {}
       /\ \A y \in invs[x].seen.interrupted : invs[y].btn # invs[x].btn
  /\ Len(invs) >= 2

\* C3 (as claimed): the URL of every created audio resource is revoked at most once.
C3_ReleasedAtMostOnce ==
  \A p \in Audios : AudioOf(p).revoked <= 1

\* C4: every created audio resource has been released once its playback wait
\* is over, however the wait ended; no finished invocation leaves one unreleased.
C4_NoLeak ==
  \A p \in Audios :
    Created(AudioOf(p)) /\ ~WaitsOn(invs[p[1]], p[2]) => AudioOf(p).revoked >= 1

\* An invocation is over whose waits ended by natural end and by cancellation,
\* and another wait ended by a failure.
C4_Witness ==
  /\ \E x \in DOMAIN invs :
       /\ invs[x].pc = "done"
       /\ \E k \in DOMAIN invs[x].audio : invs[x].audio[k].st = "ended"
       /\ \E k \in DOMAIN invs[x].audio : invs[x].audio[k].st = "paused"
  /\ \E p \in Audios : AudioOf(p).st \in {"errored", "blocked"}

\* ------------------------------------------------------------ the stream
\* The turn as the response found it, after `bytes` arrived in a single read.
Whole(bytes) == readChunk(start, bytes)

\* Every byte the server sent has been read, and the stream is still open.
AllRead == tracking /\ sendPc = "read" /\ wire = <<>>

IsDispatch(e) == e.kind = "data" /\ e.parsed
Dispatched(log) ==
  LET d == SelectSeq(log, IsDispatch)
  IN [i \in DOMAIN d |-> <<d[i].type, d[i].payload>>]

\* The consumer and the page, apart from the record of what was sent and from
\* what the user has typed meanwhile.
Outcome(w) ==
  [w EXCEPT !.wire = <<>>, !.emitted = 0, !.sent = <<>>, !.turn.split = FALSE,
            !.chatInput = <<>>]
Shown(w) == [Outcome(w) EXCEPT !.lineLog = <<>>]

\* C5: once all of the stream has been read, in reads of any sizes, whether or
\* not its last line has its newline, the (event type, payload) pairs
\* dispatched, the record of every line and the resulting page are those of one
\* read of the whole stream.
C5_FragmentationEquivalence ==
  AllRead =>
    /\ Dispatched(lineLog) = Dispatched(Whole(sent).lineLog)
    /\ Outcome(World) = Outcome(Whole(sent))

\* A token whose two-byte character was cut between its bytes by a read has
\* been dispatched and is part of the text.
C5_Witness ==
  /\ AllRead
  /\ turn.split
  /\ \E i \in DOMAIN lineLog :
       IsDispatch(lineLog[i]) /\ lineLog[i].type = E_token /\ lineLog[i].payload = J_tokB
  /\ \E j \in DOMAIN rawText : rawText[j] = "U00E9"

\* The event type in force at line i: that of the last event-type line, unless
\* a data line came after it.
InForce(log, i) ==
  LET marks == {j \in 1..(i - 1) : log[j].kind \in {"event", "data"}}
  IN IF marks = {} THEN Sentinel
     ELSE LET j == CHOOSE j \in marks : \A h \in marks : h <= j
          IN IF log[j].kind = "event" THEN log[j].type ELSE Sentinel

\* C6: the current event type is the sentinel at the start of the stream and
\* after every data line, parsed or not; a data line is dispatched with the
\* type of the event-type line that governs it, and with the sentinel when
\* there is none since the last data line, and then it has no effect.
C6_TypeGovernsNextDataLineOnly ==
  tracking =>
    /\ \A i \in DOMAIN lineLog :
         /\ lineLog[i].kind # "event" => lineLog[i].type = InForce(lineLog, i)
         /\ lineLog[i].kind = "data" /\ lineLog[i].type = Sentinel => ~lineLog[i].changed
    /\ sendPc = "read" => currentEvent = InForce(lineLog, Len(lineLog) + 1)

\* A well-formed token payload directly after a data line governed by a token
\* event line was dispatched with the sentinel.
C6_Witness ==
  \E i \in DOMAIN lineLog :
    /\ i > 1
    /\ IsDispatch(lineLog[i]) /\ lineLog[i].type = Sentinel /\ lineLog[i].payload = J_tokB
    /\ lineLog[i - 1].kind = "data" /\ lineLog[i - 1].type = E_token

IsEventLine(line) == startsWith(line, EventPrefix)
IsDataLine(line) == startsWith(line, DataPrefix)
IsMalformed(line) ==
  IsDataLine(line) /\ ~JSONparse(Decode(<<>>, slice(line, Len(DataPrefix))).chars).ok

\* The lines sent, in bytes, each without its newline.
SentLines == LET l == split(sent) IN SubSeq(l, 1, Len(l) - 1)

\* The last line sent has its newline.
Closed == sent = <<>> \/ sent[Len(sent)] = "\n"

\* Every event-type line is directly followed by its data line.
Framed(l) == \A i \in DOMAIN l : IsEventLine(l[i]) => i < Len(l) /\ IsDataLine(l[i + 1])

\* The malformed data lines and their event-type lines.
Dropped(l) ==
  {i \in DOMAIN l : \/ IsMalformed(l[i])
                    \/ IsEventLine(l[i]) /\ i < Len(l) /\ IsMalformed(l[i + 1])}

\* The stream of the lines of l whose index is not in D.
Without(l, D) ==
  LET keep == {i \in DOMAIN l : i \notin D}
      nth(k) == CHOOSE i \in keep : Cardinality({j \in keep : j < i}) = k - 1
  IN Concat([k \in 1..Cardinality(keep) |-> l[nth(k)] \o <<"\n">>], 1, Cardinality(keep))

\* C7: a data line whose payload does not parse changes nothing (text, message,
\* tool rows, retry row; no error shown), and the page after a stream of framed
\* events is the one the stream gives without its malformed data lines and
\* their event-type lines.
C7_MalformedDropped ==
  tracking =>
    /\ \A i \in DOMAIN lineLog :
         lineLog[i].kind = "data" /\ ~lineLog[i].parsed => ~lineLog[i].changed
    /\ AllRead /\ Closed /\ Framed(SentLines) =>
         Shown(World) = Shown(Whole(Without(SentLines, Dropped(SentLines))))

\* A malformed payload under a token event line was dropped, and the token
\* event sent after it was dispatched and changed the text.
C7_Witness ==
  /\ AllRead /\ Closed /\ Framed(SentLines)
  /\ \E i \in DOMAIN lineLog : \E j \in DOMAIN lineLog :
       /\ i < j
       /\ lineLog[i].kind = "data" /\ ~lineLog[i].parsed /\ lineLog[i].type = E_token
       /\ IsDispatch(lineLog[j]) /\ lineLog[j].type = E_token /\ lineLog[j].changed

\* ------------------------------------------------------------- the turns
\* C8 (as claimed): a turn that received a non-empty token and whose stream
\* closed without a done event has its message finalized once (marker and
\* cursor removed, one affordance attached) and its narration started once.
C8_NoDoneStillFinalizedOnce ==
  ( /\ sendPc = "idle" /\ turn.token /\ ~turn.done
    /\ streamBody # 0
    /\ msgs[streamBody].body.kind # "connection-error" ) =>
      /\ ~msgs[streamBody].sid
      /\ ~msgs[streamBody].cursor
      /\ Len(msgs[streamBody].tts) = 1
      /\ turn.plays = 1

\* C9 (as claimed): in every turn, after any earlier turns, at most one
\* affordance is attached and automatic narration is started at most once.
C9_NarratedAtMostOncePerTurn ==
  turn.plays <= 1 /\ Len(turn.attached) <= 1

BodyOf(sb, ms) == IF sb = 0 THEN EmptyBody ELSE ms[sb].body
TokenFrames == { Frame(B_ev_token, B_tokA), Frame(B_ev_token, B_tokNone) }

\* C10 (as claimed): once a done or an error event has been handled in a turn,
\* reading a token event of the same stream changes neither the accumulated
\* text nor the body the message displays.
C10_DoneOrErrorEndsAssembly ==
  [][ ( /\ sendPc = "read" /\ sendPc' = "read"
        /\ turn.done \/ turn.err
        /\ wire \in TokenFrames /\ wire' = <<>> )
      => ( /\ rawText' = rawText
           /\ BodyOf(streamBody', msgs') = BodyOf(streamBody, msgs) ) ]_vars

\* What a send that is turned away leaves alone: everything but the input box.
SessionVars ==
  <<currentAudio, ttsAbort, invs, btns, currentMode, isStreaming, hasMessages,
    sendDisabled, expression, msgs, toolBox, confirms, sendPc, streamBody, rawText,
    decoderPending, buffer, currentEvent, wire, emitted, faults, tracking, sent,
    lineLog, turn, start>>

\* C11: one stream session at a time: while a turn is active, a send adds no
\* user message, issues no request, disturbs nothing of the running turn and
\* leaves the typed text in the input box.
C11_SendWhileActiveRejected ==
  [][ (isStreaming /\ SendKey) =>
        /\ UNCHANGED SessionVars
        /\ chatInput' \in InputTexts ]_vars

\* A send was attempted, and turned away, while the stream was being read.
C11_Witness ==
  isStreaming /\ sendPc = "read" /\ trim(chatInput) # <<>> /\ emitted > 0

\* C12: whenever no turn is running (whether the last one closed normally, broke
\* off with an error or closed without a terminating event) the tool status
\* container and the retry row are gone, the turn flag is clear and sending is
\* enabled; a send is then accepted.
C12_CleanupUnconditional ==
  sendPc = "idle" =>
    /\ toolBox = NoToolBox
    /\ ~isStreaming
    /\ ~sendDisabled
    /\ \A text \in InputTexts :
         trim(text) # <<>> =>
           sendMessage([World EXCEPT !.chatInput = text]).sendPc = "connect"

\* A second turn has ended; it had made the status container, and a turn broke
\* off with a read or connection error.
C12_Witness ==
  sendPc = "idle" /\ turn.n = 2 /\ turn.tools /\ faults > 0

OrphanFrames == { Frame(B_ev_tool_done, B_done2) }

\* Is there a row for call id `id`?  (J_done2 completes call "c2".)
HasRow(id) == \E j \in DOMAIN toolBox.rows : toolBox.rows[j].id = ToolRowId(id)

\* C20: a read that returns (no read error) a tool completion whose call id has
\* no row creates and changes no row and changes nothing else; the stream goes
\* on being read.
C20_OrphanToolDoneNoOp ==
  [][ ( /\ sendPc = "read" /\ wire \in OrphanFrames /\ wire' = <<>>
        /\ faults' = faults
        /\ ~HasRow("c2") ) =>
        /\ sendPc' = "read"
        /\ UNCHANGED <<currentAudio, ttsAbort, invs, btns, currentMode, isStreaming,
                       hasMessages, sendDisabled, expression, msgs, toolBox, confirms,
                       streamBody, rawText, decoderPending, buffer, currentEvent>> ]_vars

\* A completion without a row was read while the row of another call was
\* shown, and the stream is still being read.
C20_Witness ==
  /\ sendPc = "read" /\ turn.orphan
  /\ toolBox.exists /\ toolBox.rows # <<>>

\* ---------------------------------------------------------- the narration
Failed(f) == f \in {"notok", "rejected"}
Issued(f) == f # "none"

\* C13: the fetch of chunk k + 1 is issued only once the response of chunk k
\* has been received, and is issued before the audio of chunk k is made (so
\* before chunk k begins to play).
C13_Prefetch ==
  \A x \in DOMAIN invs :
    LET v == invs[x] IN
      \A k \in DOMAIN v.fetch :
        k < Len(v.chunks) =>
          /\ Issued(v.fetch[k + 1]) => v.fetch[k] = "ok"
          /\ Created(v.audio[k]) => Issued(v.fetch[k + 1])

\* Of three chunks the second is sounding while the fetch of the third, issued
\* before it began, is still pending.
C13_Witness ==
  \E x \in DOMAIN invs :
    /\ Len(invs[x].chunks) = 3
    /\ invs[x].audio[2].st = "sounding"
    /\ invs[x].fetch[3] = "pending"

\* The chunks of an invocation being transferred: a pending fetch, or the
\* body of the current chunk being downloaded.
InFlight(v) ==
  {k \in DOMAIN v.fetch : v.fetch[k] = "pending" \/ (v.pc = "blob" /\ k = v.i + 1)}

\* C14: at most two chunk fetches of an invocation are in flight, and the fetch
\* of chunk k + 2 has not been issued while the loop has not got past the
\* playback wait of chunk k.
C14_AtMostTwoInFlight ==
  \A x \in DOMAIN invs :
    LET v == invs[x] IN
      /\ Cardinality(InFlight(v)) <= 2
      /\ \A k \in DOMAIN v.fetch :
           k + 2 <= Len(v.chunks) /\ Issued(v.fetch[k + 2]) => v.i + 1 > k

\* The body of one chunk is being downloaded while the fetch of the next one
\* is pending, and a third chunk has not been asked for.
C14_Witness ==
  \E x \in DOMAIN invs :
    /\ Len(invs[x].chunks) = 3
    /\ InFlight(invs[x]) = {1, 2}
    /\ invs[x].fetch[3] = "none"

\* C15: an audio of chunk k exists only if every chunk before it was fetched
\* successfully and was played, its playback wait being over and its audio
\* silent: index order, no skipping, no overlap.
C15_PlayedInOrder ==
  \A x \in DOMAIN invs :
    LET v == invs[x] IN
      \A k \in DOMAIN v.audio :
        Created(v.audio[k]) =>
          /\ v.fetch[k] = "ok"
          /\ v.i + 1 >= k
          /\ \A j \in 1..(k - 1) :
               v.fetch[j] = "ok" /\ Created(v.audio[j]) /\ ~Audible(v.audio[j])

\* The third chunk is sounding after the first two played to their end.
C15_Witness ==
  \E x \in DOMAIN invs :
    /\ Len(invs[x].chunks) = 3
    /\ invs[x].audio[1].st = "ended"
    /\ invs[x].audio[2].st = "ended"
    /\ invs[x].audio[3].st = "sounding"

\* What a failed fetch of chunk k rules out: an audio of chunk k or later, and
\* a fetch of a later chunk.
RestAborted(v, k) ==
  /\ \A j \in k..Len(v.chunks) : ~Created(v.audio[j])
  /\ \A j \in (k + 1)..Len(v.chunks) : ~Issued(v.fetch[j])

C17_PlaybackFailureContinues ==
  \A x \in DOMAIN invs :
    LET v == invs[x] IN
      /\ ( /\ v.pc = "done" /\ ~v.aborted /\ ~v.blobFailed
           /\ \A k \in DOMAIN v.fetch : ~Failed(v.fetch[k]) ) =>
           \A k \in DOMAIN v.audio : v.fetch[k] = "ok" /\ Created(v.audio[k])
      /\ \A k \in DOMAIN v.audio :
           v.audio[k].st \in {"errored", "blocked"} => ~WaitsOn(v, k)

\* The first chunk failed to play, and the second was fetched and played to
\* its end.
C17_Witness ==
  \E x \in DOMAIN invs :
    /\ Len(invs[x].chunks) >= 2
    /\ invs[x].audio[1].st \in {"errored", "blocked"}
    /\ invs[x].audio[2].st = "ended"
    /\ invs[x].pc = "done" /\ ~invs[x].aborted

\* C18 (as claimed): the cancellation of a narration leaves no error report.
C18_CancellationNotReported ==
  \A x \in DOMAIN invs : invs[x].aborted => invs[x].onCancel = {}

\* C19 (as claimed): a narration that ended on a fetch failure shows it: its
\* button, or the page, differs from what an untouched button shows.
C19_FetchFailureShown ==
  \A x \in DOMAIN invs :
    LET v == invs[x] IN
      ( /\ v.pc = "done" /\ ~v.aborted
        /\ \E k \in DOMAIN v.fetch : Failed(v.fetch[k]) ) =>
          btns[v.btn] # makeTTSButton(btns[v.btn].text)

\* ---------------------------------------------------------- the segmenter
NonBlank(s) == \E i \in DOMAIN s : s[i] \notin Whitespace
TermAt(s) == {i \in DOMAIN s : s[i] \in Terminators}

\* s without the whitespace at its two ends.
Strip(s) ==
  LET nb == {i \in DOMAIN s : s[i] \notin Whitespace}
  IN IF nb = {} THEN <<>>
     ELSE SubSeq(s, CHOOSE i \in nb : \A j \in nb : i <= j,
                    CHOOSE i \in nb : \A j \in nb : j <= i)

\* The pieces of s, each ending with its terminator; the last is what follows
\* the last terminator.
Pieces(s) ==
  LET t == TermAt(s)
      n == Cardinality(t)
      cut == [k \in 0..(n + 1) |->
                IF k = 0 THEN 0
                ELSE IF k = n + 1 THEN Len(s)
                ELSE CHOOSE i \in t : Cardinality({j \in t : j < i}) = k - 1]
  IN [k \in 1..(n + 1) |-> SubSeq(s, cut[k - 1] + 1, cut[k])]

\* The pieces that are not blank, stripped, in their order.
Sentences(s) ==
  LET p == Pieces(s)
      keep == {k \in DOMAIN p : NonBlank(p[k])}
      nth(j) == CHOOSE k \in keep : Cardinality({h \in keep : h < k}) = j - 1
  IN [j \in 1..Cardinality(keep) |-> Strip(p[nth(j)])]

\* C22: a text without a terminator that is not blank is narrated as one chunk,
\* the text without the whitespace at its ends; a period closes no chunk.
C22_PeriodIsNoTerminator ==
  \A x \in DOMAIN invs :
    LET v == invs[x] IN
      TermAt(v.text) = {} /\ NonBlank(v.text) => v.chunks = <<Strip(v.text)>>

\* "Hello world. Version 2.0 is out" was segmented, into one chunk.
C22_Witness ==
  \E x \in DOMAIN invs : invs[x].text = HelloText /\ invs[x].chunks = <<HelloText>>

\* C23: of a text that is not blank, the chunks are its non-blank pieces in
\* order, one closed at every terminator and one for what follows the last;
\* a chunk holds a terminator only as its last character.
C23_ChunkClosedAtEveryTerminator ==
  \A x \in DOMAIN invs :
    LET v == invs[x] IN
      NonBlank(v.text) =>
        /\ v.chunks = Sentences(v.text)
        /\ \A c \in DOMAIN v.chunks : \A i \in DOMAIN v.chunks[c] :
             v.chunks[c][i] \in Terminators => i = Len(v.chunks[c])
        /\ LET last == Pieces(v.text)[Cardinality(TermAt(v.text)) + 1]
           IN NonBlank(last) => v.chunks[Len(v.chunks)] = Strip(last)

\* "元気ですか？うん！" was segmented, into "元気ですか？" and "うん！".
C23_Witness ==
  \E x \in DOMAIN invs :
    /\ invs[x].text = GenkiText
    /\ invs[x].chunks = <<SubSeq(GenkiText, 1, 6), SubSeq(GenkiText, 7, 9)>>

\* C24: a narration has at least one chunk, and its chunk 0 is fetched; a blank
\* text (empty, or whitespace only) is narrated as one chunk, the text itself.
C24_NeverEmpty ==
  \A x \in DOMAIN invs :
    LET v == invs[x] IN
      /\ Len(v.chunks) >= 1
      /\ DOMAIN v.fetch = 1..Len(v.chunks)
      /\ Issued(v.fetch[1])
      /\ ~NonBlank(v.text) => v.chunks = <<v.text>>

\* A text of whitespace with a newline in it was narrated as one chunk, and
\* the fetch of that chunk was answered.
C24_Witness ==
  \E x \in DOMAIN invs :
    /\ invs[x].text = <<" ", "\n">>
    /\ invs[x].chunks = <<invs[x].text>>
    /\ invs[x].fetch[1] = "ok"

\* ------------------------------------------------------- the retry row
RetryRows == {j \in DOMAIN toolBox.rows : IsRetryRow(toolBox.rows[j])}

ClearingFrames ==
  { Frame(B_ev_token, B_tokA), Frame(B_ev_token, B_tokNone),
    Frame(B_ev_done, B_done), Frame(B_ev_error, B_error) }

\* C21: directly after a token, a done or an error event has been read there is
\* no retry row, and there is none whenever no turn is running.
C21_RetryRowNeverOutlives ==
  [][ /\ ( /\ sendPc = "read" /\ wire \in ClearingFrames /\ wire' = <<>>
           /\ faults' = faults ) => RetryRows' = {}
      /\ sendPc' = "idle" => RetryRows' = {} ]_vars

\* The retry row was shown in this turn, alone in its container, and the token
\* that came next removed it; the turn is still being read.
C21_Witness ==
  /\ sendPc = "read"
  /\ toolBox.exists /\ toolBox.rows = <<>>
  /\ turn.token /\ ~turn.done /\ ~turn.err

\* ------------------------------------------------------------ the button
\* C25: the button of a running narration is loading (and cannot be clicked)
\* until the audio of chunk 0 is made, and from then on playing, a click on it
\* stopping the narration; the button of a narration that is over without
\* having been cancelled, completed or failed, is idle, and a click on it
\* starts a narration of the same text at chunk 0.
C25_AffordanceLifecycle ==
  \A x \in DOMAIN invs :
    LET v == invs[x]
        b == btns[v.btn]
    IN /\ Active(v) /\ ~Created(v.audio[1]) => b.cls = "loading" /\ b.disabled
       /\ Active(v) /\ Created(v.audio[1]) =>
            b.cls = "playing" /\ ~b.disabled /\ b.onclick = "stop"
       /\ v.pc = "done" /\ ~v.aborted =>
            /\ b = makeTTSButton(v.text)
            /\ LET w == playTTS(World, b.text, v.btn)
                   n == w.invs[Len(w.invs)]
               IN /\ Len(w.invs) = Len(invs) + 1
                  /\ n.text = v.text /\ n.btn = v.btn /\ n.i = 0
                  /\ n.chunks = v.chunks /\ n.fetch[1] = "pending"
                  /\ w.btns[v.btn].cls = "loading"

\* A narration failed on a fetch and its button went back to idle; the button
\* was clicked and the same text was narrated again, from chunk 0 to its end,
\* and the button is idle again.
C25_Witness ==
  \E x \in DOMAIN invs :
    /\ x >= 2
    /\ invs[x - 1].btn = invs[x].btn /\ invs[x - 1].text = invs[x].text
    /\ invs[x - 1].logged
    /\ invs[x].pc = "done" /\ ~invs[x].aborted
    /\ \A k \in DOMAIN invs[x].audio : invs[x].audio[k].st = "ended"
    /\ Len(invs[x].chunks) >= 2
    /\ btns[invs[x].btn].cls = "idle"

\* ------------------------------------------------------- the error event
ErrorFrame == Frame(B_ev_error, B_error)

\* C26: reading an error event leaves the accumulated text as it is, shows the
\* error in the body of the turn's message and removes its cursor; the message
\* is the one the turn already had, nothing else of it or of any other message
\* changing, or, if the turn had none, a new one, the last of the document.
C26_ErrorKeepsText ==
  [][ ( /\ sendPc = "read" /\ wire = ErrorFrame /\ wire' = <<>>
        /\ faults' = faults ) =>
        /\ rawText' = rawText
        /\ IF streamBody = 0
           THEN /\ Len(msgs') = Len(msgs) + 1
                /\ SubSeq(msgs', 1, Len(msgs)) = msgs
                /\ streamBody' = Len(msgs')
                /\ msgs'[streamBody'].role = "assistant"
           ELSE /\ streamBody' = streamBody
                /\ msgs' = [msgs EXCEPT ![streamBody].body = ErrorBody(<<"x">>),
                                        ![streamBody].cursor = FALSE]
        /\ msgs'[streamBody'].body = ErrorBody(<<"x">>)
        /\ ~msgs'[streamBody'].cursor ]_vars

\* An error event was read after a token: the message shows the error, without
\* a cursor, and the text of the token is still held.
C26_Witness ==
  /\ sendPc = "read" /\ turn.err /\ turn.token
  /\ rawText = <<"a">>
  /\ streamBody # 0
  /\ msgs[streamBody].body = ErrorBody(<<"x">>)
  /\ ~msgs[streamBody].cursor

\* ------------------------------------------------------- cancellation
\* C27: in the step that signals an invocation and in every step after it, the
\* invocation issues no fetch, makes no audio and starts no playback; once
\* signalled it waits for nothing but the settling of a body download that was
\* under way, none of its fetches is pending and none of its audios plays.
C27_CancellationReachesEveryWait ==
  [][ \A x \in DOMAIN invs :
        invs'[x].aborted =>
          /\ \A k \in DOMAIN invs[x].fetch :
               /\ Issued(invs'[x].fetch[k]) => Issued(invs[x].fetch[k])
               /\ invs'[x].fetch[k] # "pending"
               /\ Created(invs'[x].audio[k]) => Created(invs[x].audio[k])
               /\ ~Audible(invs'[x].audio[k])
          /\ invs'[x].pc \in {"done", "blob"} ]_vars

\* One narration was cancelled while the body of its first chunk was being
\* downloaded, the prefetch of its second chunk pending; another while its
\* first chunk played, its second chunk fetched and its third not asked for.
\* Neither went on.
C27_Witness ==
  /\ Len(invs) = 2
  /\ LET v == invs[1] IN
       /\ v.aborted /\ ~v.logged /\ Len(v.chunks) >= 2
       /\ v.fetch[1] = "ok" /\ ~Created(v.audio[1]) /\ v.fetch[2] = "aborted"
  /\ LET v == invs[2] IN
       /\ v.aborted /\ Len(v.chunks) = 3
       /\ v.audio[1].st = "paused" /\ v.fetch[2] = "ok" /\ ~Created(v.audio[2])
       /\ v.fetch[3] = "none"

\* ---------------------------------------------------------- the tokens
\* The text a frame carries as a token: that of a token event whose payload
\* parses, and nothing for any other frame.
TokenOf(frame) ==
  CASE frame = Frame(B_ev_token, B_tokA) -> <<"a">>
    [] frame = Frame(B_ev_token, B_tokB) -> <<"U00E9", "!">>
    [] OTHER -> <<>>

\* C28: the accumulated text is empty when a turn starts, grows by the text of
\* each token event read, at its end, and changes in no other step, so that it
\* is the concatenation of the tokens in their order of arrival; and a
\* narration started by the turn is given exactly that text.
C28_TokensInArrivalOrder ==
  [][ /\ IF sendPc = "read" /\ wire # <<>> /\ wire' = <<>> /\ faults' = faults
         THEN rawText' = rawText \o TokenOf(wire)
         ELSE IF sendPc = "idle" /\ sendPc' = "connect"
         THEN rawText' = <<>>
         ELSE rawText' = rawText
      /\ \A x \in DOMAIN invs' :
           x \notin DOMAIN invs => invs'[x].text = rawText' ]_vars

\* Two different tokens and the done event were read: the text is the first
\* token followed by the second, and it is the text being narrated.
C28_Witness ==
  /\ turn.done
  /\ rawText = <<"a", "U00E9", "!">>
  /\ \E x \in DOMAIN invs : invs[x].text = rawText /\ invs[x].pc = "fetch"

\* -------------------------------------------------------- the tool rows
ToolRows(box) == SelectSeq(box.rows, NotRetryRow)

\* C29 (as claimed): after the completion of call c1 has been read no row of
\* c1 is running, whatever starts and completions were read before; a row that
\* is done stays done; and rows change only while a turn is active.
C29_NoRowLeftRunning ==
  [][ /\ ( /\ sendPc = "read" /\ wire = Frame(B_ev_tool_done, B_done1)
           /\ wire' = <<>> /\ faults' = faults ) =>
           \A j \in DOMAIN toolBox'.rows :
             toolBox'.rows[j].id = ToolRowId("c1") => toolBox'.rows[j].cls # "running"
      /\ \A j \in DOMAIN ToolRows(toolBox) \cap DOMAIN ToolRows(toolBox') :
           ToolRows(toolBox)[j].cls = "done" => ToolRows(toolBox')[j].cls = "done"
      /\ toolBox' # toolBox => isStreaming ]_vars

\* ------------------------------------------------- the message of a turn
DoneFrame == Frame(B_ev_done, B_done)

\* C30 (as claimed): reading the done event of a turn changes no message but
\* the one the turn made, whatever turns came before; that message gets the
\* mode of the event and, when there is text, the narration button.
C30_DoneFinalizesOwnMessage ==
  [][ ( /\ sendPc = "read" /\ wire = DoneFrame /\ wire' = <<>>
        /\ faults' = faults ) =>
        /\ \A j \in DOMAIN msgs : j # streamBody => msgs'[j] = msgs[j]
        /\ streamBody # 0 =>
             /\ msgs'[streamBody].cls = "psycho"
             /\ rawText # <<>> => msgs'[streamBody].tts # <<>> ]_vars

\* --------------------------------------------- what a cancelled call writes
\* C31: a step in which a call that was cancelled before goes on (its body
\* download settled) changes no button, neither handle; and the step that
\* cancels a call leaves no current audio, the button of the call it starts,
\* if it starts one, loading, and every other button idle.
C31_CancelledWritesNothing ==
  [][ \A x \in DOMAIN invs :
        /\ invs[x].aborted /\ invs'[x] # invs[x] =>
             btns' = btns /\ currentAudio' = currentAudio /\ ttsAbort' = ttsAbort
        /\ ~invs[x].aborted /\ invs'[x].aborted =>
             /\ currentAudio' = NoAudio
             /\ \A b \in DOMAIN btns' :
                  IF Len(invs') > Len(invs) /\ b = invs'[Len(invs')].btn
                  THEN btns'[b].cls = "loading"
                  ELSE btns'[b].cls = "idle" ]_vars

\* A narration was stopped while a body was being downloaded, and started
\* again from the same button; the first call went on, and ended, when the
\* audio of the second was the current one, which it still is, the button
\* showing the second as playing.
C31_Witness ==
  /\ Len(invs) = 2
  /\ invs[1].btn = invs[2].btn
  /\ invs[1].aborted /\ invs[1].late /\ invs[1].pc = "done"
  /\ Active(invs[2])
  /\ currentAudio # NoAudio /\ currentAudio[1] = 2
  /\ btns[invs[2].btn].cls = "playing"

\* -------------------------------------------------- the buttons together
Busy == {b \in DOMAIN btns : btns[b].cls \in {"loading", "playing"}}

\* C32: at most one button is loading or playing; a button that is, is the
\* button of a narration that is neither cancelled nor over; so when no
\* narration is active every button is idle.
C32_OneBusyButton ==
  /\ Cardinality(Busy) <= 1
  /\ \A b \in Busy : \E x \in DOMAIN invs : Active(invs[x]) /\ invs[x].btn = b
  /\ (\A x \in DOMAIN invs : ~Active(invs[x])) =>
       \A b \in DOMAIN btns : btns[b].cls = "idle"

\* Of two buttons one is playing, in a narration that cut off the narration
\* of the other, which is idle again.
C32_Witness ==
  /\ Len(btns) = 2
  /\ \E x \in DOMAIN invs :
       /\ Active(invs[x]) /\ btns[invs[x].btn].cls = "playing"
       /\ \E y \in invs[x].seen.interrupted :
            invs[y].btn # invs[x].btn /\ btns[invs[y].btn].cls = "idle"

\* ------------------------------------------------- the unterminated rest
\* The bytes of the turn's stream that have been read.
ReadSoFar == SubSeq(sent, 1, Len(sent) - Len(wire))

Newlines(s) == {i \in DOMAIN s : s[i] = "\n"}

\* s up to its last newline.
Terminated(s) ==
  IF Newlines(s) = {} THEN <<>>
  ELSE SubSeq(s, 1, CHOOSE i \in Newlines(s) : \A j \in Newlines(s) : j <= i)

\* The page and the consumer when the turn is over, apart from the buffer.
Ended(w) == [Shown(w) EXCEPT !.buffer = <<>>, !.decoderPending = <<>>]

\* C33: as many lines have been processed as newlines have been read, so no
\* line is processed before its newline; and when the stream has ended the turn
\* is as if what was sent after the last newline had not been sent.
C33_UnterminatedNeverProcessed ==
  tracking =>
    /\ Len(lineLog) = Cardinality(Newlines(ReadSoFar))
    /\ sendPc = "idle" /\ start # <<>> =>
         Ended(World) = Ended(finish(Whole(Terminated(sent))))

\* The stream ended after a token event line and a well-formed token data
\* line without its newline: the data line is still in the buffer, no text
\* was accumulated and no message was made.
C33_Witness ==
  /\ tracking /\ sendPc = "idle" /\ start # <<>>
  /\ buffer = DataPrefix \o J_tokB
  /\ currentEvent = E_token
  /\ rawText = <<>> /\ streamBody = 0 /\ Len(msgs) = 1

\* ------------------------------------------------ what segmenting keeps
IsInk(c) == c \notin Whitespace

\* Is a, from its position i on, got from b, from its position j on, by
\* leaving out whitespace only?
RECURSIVE LessSpace(_, _, _, _)
LessSpace(a, i, b, j) ==
  IF j > Len(b) THEN i > Len(a)
  ELSE IF i <= Len(a) /\ a[i] = b[j] /\ LessSpace(a, i + 1, b, j + 1) THEN TRUE
  ELSE b[j] \in Whitespace /\ LessSpace(a, i, b, j + 1)

\* C34: of a text that is not blank, every chunk is non-empty and neither
\* begins nor ends with whitespace, and the chunks, put together in order, are
\* the text with nothing but whitespace left out: the same characters other
\* than whitespace, as often and in the same order.
C34_ContentPreserved ==
  \A x \in DOMAIN invs :
    LET v == invs[x]
        all == Concat(v.chunks, 1, Len(v.chunks))
    IN NonBlank(v.text) =>
         /\ \A c \in DOMAIN v.chunks :
              /\ v.chunks[c] # <<>>
              /\ IsInk(v.chunks[c][1]) /\ IsInk(v.chunks[c][Len(v.chunks[c])])
         /\ SelectSeq(all, IsInk) = SelectSeq(v.text, IsInk)
         /\ LessSpace(all, 1, v.text, 1)

\* A text that begins with a space and has a newline between two letters was
\* segmented: the chunks are the two letters, all whitespace left out.
C34_Witness ==
  \E x \in DOMAIN invs :
    /\ invs[x].text = <<" ", "a", "\n", "a">>
    /\ invs[x].chunks = << <<"a">>, <<"a">> >>

\* ------------------------------------------------------------ termination
\* The call waits for the network: a fetch, an error body or a body download.
NetWait(x) == x \in DOMAIN invs /\ invs[x].pc \in {"fetch", "json", "blob"}
Over(x) == x \in DOMAIN invs /\ invs[x].pc = "done"

\* C35: playback waits settling, every narration call, cancelled or not, is in
\* the end over for good, unless from some point on it waits for the network
\* for ever: a fetch that never settles is all that keeps a call from ending.
\* A call that is over and was not cancelled has its button idle.
C35_Terminates ==
  /\ \A x \in 1..MaxInv : <>[](x \notin DOMAIN invs \/ Over(x) \/ NetWait(x))
  /\ [](\A x \in DOMAIN invs :
          invs[x].pc = "done" /\ ~invs[x].aborted => btns[invs[x].btn].cls = "idle")

\* A narration of three chunks is over, uncancelled, each chunk fetched and
\* played to its end, and its button is idle.
C35_Witness ==
  \E x \in DOMAIN invs :
    /\ Len(invs[x].chunks) = 3
    /\ invs[x].pc = "done" /\ ~invs[x].aborted
    /\ \A k \in 1..3 : invs[x].fetch[k] = "ok" /\ invs[x].audio[k].st = "ended"
    /\ btns[invs[x].btn].cls = "idle"

====
